---- MODULE Spec2Model ----
(***************************************************************************)
(* Episode ingestion and book-extraction pipeline of acquired-bookshelf:   *)
(* RSSMonitor (retry queue, feed diff), OptimizedScraper.run (one batch    *)
(* run) and the catalog merge of updateBooksDatabase.                      *)
(*                                                                         *)
(* Time is counted in hours since the epoch; Date.now() is now * 3600000.  *)
(* Titles of feed items are sequences of lower-case words, and             *)
(* String.includes on a lower-cased title is containment of a phrase       *)
(* (a contiguous run of words).                                            *)
(***************************************************************************)
EXTENDS Integers, Sequences, FiniteSets, TLC

\* ------------------------------------------------------------------ bounds
MaxTime == 4
MaxFeedItems == 2
MaxLinks == 2
MaxRetryDrawn == 3

\* ------------------------------------------------------- program constants
TwoHours == 2
OneWeek == 168
MaxRetries == 3
InterviewMaxRetries == 2
MinTitleLength == 3
HoursPerYear == 8760
EpochYear == 1970
SecondsPerHour == 3600
EpisodeNumberModulus == 10000

\* a file of the data directory: absent, unparseable, or holding content
Missing == [state |-> "missing", content |-> <<>>]
Corrupt == [state |-> "corrupt", content |-> <<>>]
FileOf(content) == [state |-> "ok", content |-> content]
\* the null that fetchRSSFeed returns on a failed fetch
Failed == [ok |-> FALSE, items |-> <<>>]
Fetched(items) == [ok |-> TRUE, items |-> items]

\* EpisodeType
REGULAR == "regular"
INTERVIEW == "interview"
SPECIAL == "special"
UNKNOWN == "unknown"

EpisodeIds == 1..MaxFeedItems

\* ------------------------------------------------------------ text helpers
\* the keywords that occur inside a longer word of the vocabulary
PartsOf(word) ==
  CASE word = "interviews" -> {"interview"}
    [] word = "lincoln" -> {"inc"}
    [] OTHER -> {}

\* String.prototype.includes on a text held as its sequence of words: phrase
\* occurs in title as a contiguous run of words, a one-word phrase also
\* inside a longer word
Includes(title, phrase) ==
  \E i \in 1..(Len(title) - Len(phrase) + 1) :
    \A j \in 1..Len(phrase) :
      \/ title[i + j - 1] = phrase[j]
      \/ Len(phrase) = 1 /\ phrase[j] \in PartsOf(title[i + j - 1])

\* the titles the podcast gives its episodes, in the order it publishes them
Titles ==
  <<  <<"widgets", "inc">>,
      <<"a", "conversation", "with", "jane", "doe">>,
      <<"the", "interview">>,
      <<"holiday", "special">> >>

TitleOf(id) == Titles[((id - 1) % Len(Titles)) + 1]

\* ------------------------------------------------------- EpisodeClassifier
interviewKeywords ==
  { <<"interview">>, <<"conversation", "with">>, <<"talk", "with">>,
    <<"fireside", "chat">>, <<"q&a", "with">>, <<"discussion", "with">> }

\* The text handed to isInterview is lower-cased, so the pattern
\* /with [A-Z][a-z]+ [A-Z][a-z]+/ cannot match it, and /the .+ interview/i
\* needs the word "interview", which the keyword list already catches.
isInterview(text) ==
  \/ \E k \in interviewKeywords : Includes(text, k)
  \/ \E i, j \in 1..Len(text) :
       text[i] = "the" /\ text[j] = "interview" /\ i + 1 < j

\* String.prototype.toLowerCase, word by word
toLowerCase(text) ==
  [i \in 1..Len(text) |->
     CASE text[i] \in {"Interview", "INTERVIEW"} -> "interview"
       [] text[i] = "Interviews" -> "interviews"
       [] text[i] = "The" -> "the"
       [] text[i] = "Holiday" -> "holiday"
       [] text[i] = "Special" -> "special"
       [] text[i] = "ACQ2" -> "acq2"
       [] text[i] = "Nike" -> "nike"
       [] text[i] = "Nike:" -> "nike:"
       [] text[i] = "Lincoln" -> "lincoln"
       [] text[i] = "Inc" -> "inc"
       [] text[i] = "Story" -> "story"
       [] text[i] = "Volume" -> "volume"
       [] text[i] = "Complete" -> "complete"
       [] text[i] = "History" -> "history"
       [] OTHER -> text[i] ]

specialKeywords ==
  { <<"holiday", "special">>, <<"acquired", "live">>, <<"live", "from">>,
    <<"special", "episode">>, <<"year-end">>, <<"annual">>, <<"celebration">> }

\* /live from [A-Z]/i needs the words "live from", which the keyword list
\* already catches.
isSpecial(text) == \E k \in specialKeywords : Includes(text, k)

isACQ2(text) == Includes(text, <<"acq2">>)

\* the words of the vocabulary that match ^\w+$, ^[A-Z][a-z]+$ and ^\w+:$,
\* and those that start with a letter
WordCharWords ==
  { "Interview", "INTERVIEW", "Interviews", "interview", "interviews", "The",
    "the", "Holiday", "holiday", "Special", "special", "ACQ2", "acq2", "Nike",
    "nike", "Lincoln", "Inc", "Story", "Volume", "Complete", "History", "2023",
    "annual", "recap", "our", "a", "conversation", "with", "founder", "One" }
CapitalisedWords ==
  { "Interview", "Interviews", "The", "Holiday", "Special", "Nike", "Lincoln",
    "Inc", "Story", "Volume", "Complete", "History", "One" }
ColonWords == { "Nike:" }
LetterFirstWords == (WordCharWords \ {"2023"}) \cup ColonWords

\* /^[A-Z][^:]*: <first> <second>.../i : the first colon of the title ends a
\* word and the words after it begin with rest
ColonThen(title, rest) ==
  \E k \in 1..(Len(title) - Len(rest)) :
    /\ title[1] \in LetterFirstWords
    /\ title[k] \in ColonWords
    /\ \A i \in 1..(k - 1) : title[i] \notin ColonWords
    /\ \A j \in 1..Len(rest) : toLowerCase(title)[k + j] = rest[j]

regularPatterns(title) ==
  \/ ColonThen(title, <<"the", "complete", "history">>)
  \/ ColonThen(title, <<"the", "story">>)
  \/ /\ Len(title) >= 3
     /\ title[1] \in ColonWords
     /\ toLowerCase(title)[2] = "volume"
  \/ /\ Len(title) = 2
     /\ title[1] \in WordCharWords
     /\ title[2] \in WordCharWords

businessWords ==
  { <<"inc">>, <<"corp">>, <<"company">>, <<"technologies">>, <<"systems">>,
    <<"group">> }

isRegular(title) ==
  \/ regularPatterns(title)
  \/ /\ Len(title) \in {1, 2}
     /\ \A i \in 1..Len(title) : title[i] \in CapitalisedWords
  \/ \E w \in businessWords : Includes(toLowerCase(title), w)

ACQ2 == "acq2"

\* confidence is held in tenths: 9 is the code's 0.9
Classification(type, confidence, shouldSkip, expectedSources) ==
  [ type |-> type, confidence |-> confidence, shouldSkip |-> shouldSkip,
    expectedSources |-> expectedSources ]

\* classify that looks for a special episode before an interview
classify_SpecialFirst(title, description) ==
  LET combined == toLowerCase(title) \o toLowerCase(description)
  IN IF isSpecial(combined) THEN Classification(SPECIAL, 8, TRUE, FALSE)
     ELSE IF isInterview(combined) THEN Classification(INTERVIEW, 9, TRUE, FALSE)
     ELSE IF isACQ2(combined) THEN Classification(ACQ2, 7, TRUE, FALSE)
     ELSE IF isRegular(title) THEN Classification(REGULAR, 8, FALSE, TRUE)
     ELSE Classification(REGULAR, 3, FALSE, TRUE)

classify(title, description) ==
  LET combined == toLowerCase(title) \o toLowerCase(description)
  IN IF isInterview(combined) THEN Classification(INTERVIEW, 9, TRUE, FALSE)
     ELSE IF isSpecial(combined) THEN Classification(SPECIAL, 8, TRUE, FALSE)
     ELSE IF isACQ2(combined) THEN Classification(ACQ2, 7, TRUE, FALSE)
     ELSE IF isRegular(title) THEN Classification(REGULAR, 8, FALSE, TRUE)
     ELSE Classification(REGULAR, 3, FALSE, TRUE)

\* -------------------------------------------------------------- RSSMonitor
classifyEpisode(title) ==
  IF Includes(title, <<"interview">>) THEN INTERVIEW
  ELSE IF \/ Includes(title, <<"holiday", "special">>)
          \/ Includes(title, <<"acquired", "live">>)
          \/ Includes(title, <<"special", "episode">>) THEN SPECIAL
  ELSE REGULAR

getProcessingDelay(episode, retryCount) ==
  IF classifyEpisode(episode.title) = INTERVIEW /\ retryCount > 0 THEN -1
  ELSE IF retryCount = 0 THEN 0
  ELSE TwoHours

RECURSIVE SelectSeqBy(_, _)
\* Array.prototype.filter, for a predicate given as a set of kept elements
SelectSeqBy(s, keep) ==
  IF s = <<>> THEN <<>>
  ELSE IF Head(s) \in keep THEN <<Head(s)>> \o SelectSeqBy(Tail(s), keep)
  ELSE SelectSeqBy(Tail(s), keep)

Range(s) == { s[i] : i \in 1..Len(s) }

queueEpisodesForProcessing(episodes, t) ==
  LET kept == SelectSeqBy(episodes,
                { e \in Range(episodes) : classifyEpisode(e.title) # INTERVIEW })
  IN [ i \in 1..Len(kept) |->
         [ episode |-> kept[i],
           detectedAt |-> t,
           processAfter |-> t + getProcessingDelay(kept[i], 0),
           retryCount |-> 0,
           hasGoogleDoc |-> "undefined",
           episodeType |-> classifyEpisode(kept[i].title) ] ]

getLastCheckTime(file, t) ==
  IF file.state = "ok" THEN file.content ELSE t - OneWeek

QueueIds(pending) == { pending[i].episode.id : i \in 1..Len(pending) }

\* getReadyEpisodes with the processAfter test left out
getReadyEpisodesOf_All(pending, t) == pending

getReadyEpisodesOf(pending, t) ==
  SelectSeqBy(pending, { r \in Range(pending) : t >= r.processAfter })

\* markEpisodeProcessed that saves the list it loaded
markEpisodeProcessedOf_Keep(pending, episodeId) == pending

markEpisodeProcessedOf(pending, episodeId) ==
  SelectSeqBy(pending, { r \in Range(pending) : r.episode.id # episodeId })

RemoveAt(s, i) == SubSeq(s, 1, i - 1) \o SubSeq(s, i + 1, Len(s))

findIndex(pending, episodeId) ==
  IF episodeId \in QueueIds(pending)
  THEN CHOOSE i \in 1..Len(pending) :
         /\ pending[i].episode.id = episodeId
         /\ \A j \in 1..(i - 1) : pending[j].episode.id # episodeId
  ELSE -1

\* requeueEpisode whose ceiling test is > instead of >=
requeueEpisodeOf_LateCeiling(pending, episodeId, hasGoogleDoc, t) ==
  LET episodeIndex == findIndex(pending, episodeId) IN
  IF episodeIndex = -1 THEN pending
  ELSE
    LET old == pending[episodeIndex]
        bumped == [old EXCEPT !.retryCount = old.retryCount + 1,
                              !.hasGoogleDoc = IF hasGoogleDoc THEN "true" ELSE "false"]
    IN IF /\ ~hasGoogleDoc
          /\ bumped.episodeType = INTERVIEW
          /\ bumped.retryCount >= InterviewMaxRetries
       THEN RemoveAt(pending, episodeIndex)
       ELSE IF bumped.retryCount > MaxRetries
       THEN RemoveAt(pending, episodeIndex)
       ELSE [pending EXCEPT ![episodeIndex] =
               [bumped EXCEPT !.processAfter = t + TwoHours]]

\* requeueEpisode that drops interviews at their first failure
requeueEpisodeOf_EagerInterview(pending, episodeId, hasGoogleDoc, t) ==
  LET episodeIndex == findIndex(pending, episodeId) IN
  IF episodeIndex = -1 THEN pending
  ELSE
    LET old == pending[episodeIndex]
        bumped == [old EXCEPT !.retryCount = old.retryCount + 1,
                              !.hasGoogleDoc = IF hasGoogleDoc THEN "true" ELSE "false"]
    IN IF /\ ~hasGoogleDoc
          /\ bumped.episodeType = INTERVIEW
          /\ bumped.retryCount >= InterviewMaxRetries - 1
       THEN RemoveAt(pending, episodeIndex)
       ELSE IF bumped.retryCount >= MaxRetries
       THEN RemoveAt(pending, episodeIndex)
       ELSE [pending EXCEPT ![episodeIndex] =
               [bumped EXCEPT !.processAfter = t + TwoHours]]

requeueEpisodeOf(pending, episodeId, hasGoogleDoc, t) ==
  LET episodeIndex == findIndex(pending, episodeId) IN
  IF episodeIndex = -1 THEN pending
  ELSE
    LET old == pending[episodeIndex]
        bumped == [old EXCEPT !.retryCount = old.retryCount + 1,
                              !.hasGoogleDoc = IF hasGoogleDoc THEN "true" ELSE "false"]
    IN IF /\ ~hasGoogleDoc
          /\ bumped.episodeType = INTERVIEW
          /\ bumped.retryCount >= InterviewMaxRetries
       THEN RemoveAt(pending, episodeIndex)
       ELSE IF bumped.retryCount >= MaxRetries
       THEN RemoveAt(pending, episodeIndex)
       ELSE [pending EXCEPT ![episodeIndex] =
               [bumped EXCEPT !.processAfter = t + TwoHours]]

\* ------------------------------------------------------------ URLValidator
\* A URL as new URL(url) parses it: protocol, hostname (its labels, lower
\* case), port (NoPort when the URL names none or the protocol's default),
\* pathname (its segments), the names of the query parameters and whether a
\* fragment is present.
NoPort == 0
Url(protocol, host, port, path, query, hash) ==
  [ protocol |-> protocol, host |-> host, port |-> port, path |-> path,
    query |-> query, hash |-> hash ]
\* a string that new URL() rejects
NotAUrl == Url("", <<>>, NoPort, <<>>, {}, FALSE)

ALLOWED_DOMAINS ==
  { <<"www", "acquired", "fm">>, <<"docs", "google", "com">>,
    <<"openlibrary", "org">>, <<"amazon", "com">>, <<"www", "amazon", "com">>,
    <<"images-na", "ssl-images-amazon", "com">>, <<"m", "media-amazon", "com">>,
    <<"feeds", "transistor", "fm">>, <<"covers", "openlibrary", "org">> }

ALLOWED_PROTOCOLS == {"http:", "https:"}

BLOCKED_DOMAINS ==
  { <<"localhost">>, <<"127", "0", "0", "1">>, <<"0", "0", "0", "0">>,
    <<"::1">>, <<"metadata", "google", "internal">>,
    <<"169", "254", "169", "254">> }

\* labels made of digits only (\d+), and those that match (1[6-9]|2\d|3[01])
DigitLabels ==
  {"0", "1", "10", "16", "31", "32", "127", "168", "169", "172", "192", "254"}
Octets16To31 ==
  {"16", "17", "18", "19", "20", "21", "22", "23", "24", "25", "26", "27",
   "28", "29", "30", "31"}

isPrivateIP(hostname) ==
  /\ Len(hostname) = 4
  /\ \A i \in 1..4 : hostname[i] \in DigitLabels
  /\ \/ hostname[1] = "10"
     \/ hostname[1] = "172" /\ hostname[2] \in Octets16To31
     \/ hostname[1] = "192" /\ hostname[2] = "168"
     \/ hostname[1] = "127"

\* labels that begin with the characters "localhost"
LocalhostLabels == {"localhost", "localhost6"}

isBlockedDomain(hostname) ==
  \/ hostname \in BLOCKED_DOMAINS
  \/ isPrivateIP(hostname)
  \/ hostname # <<>> /\ hostname[1] \in LocalhostLabels
  \/ Len(hostname) >= 2 /\ hostname[Len(hostname)] = "local"

\* hostname.endsWith("." + allowedDomain): a proper suffix of labels
EndsWithDomain(hostname, domain) ==
  /\ Len(hostname) > Len(domain)
  /\ SubSeq(hostname, Len(hostname) - Len(domain) + 1, Len(hostname)) = domain

isAllowedDomain(hostname) ==
  \/ hostname \in ALLOWED_DOMAINS
  \/ \E allowedDomain \in ALLOWED_DOMAINS : EndsWithDomain(hostname, allowedDomain)

MinPort == 80
MaxPort == 65535
dangerousPorts ==
  {22, 23, 25, 53, 135, 139, 445, 993, 995, 1433, 3306, 3389, 5432, 6379,
   8080, 9200}

isDangerousPort(port) ==
  port \in dangerousPorts \/ port < MinPort \/ port > MaxPort

\* hostname.includes('amazon.com'): two neighbouring labels, the first ending
\* in "amazon" and the second beginning with "com"
AmazonLabels == {"amazon", "ssl-images-amazon", "media-amazon", "notamazon"}
ComLabels == {"com", "community"}
IncludesAmazonCom(hostname) ==
  \E i \in 1..(Len(hostname) - 1) :
    hostname[i] \in AmazonLabels /\ hostname[i + 1] \in ComLabels

\* segments that begin with "B0", and those that begin with "admin"
B0Segments == {"B000000001", "B000000002", "B000000001.01.L.jpg"}
AdminSegments == {"admin", "administrator"}
InternalApiVersions == {"v1", "v2"}

\* pathname.startsWith('/' + first + '/'): a first segment followed by more
StartsWithSegment(pathname, first) ==
  Len(pathname) >= 2 /\ pathname[1] = first

isValidPath(hostname, pathname) ==
  IF hostname = <<"docs", "google", "com">>
  THEN \E first \in {"document", "spreadsheets", "presentation"} :
         StartsWithSegment(pathname, first)
  ELSE IF IncludesAmazonCom(hostname)
  THEN \/ \E i \in 1..(Len(pathname) - 1) : pathname[i] = "dp"
       \/ StartsWithSegment(pathname, "gp")
       \/ StartsWithSegment(pathname, "images")
       \/ \E i \in 1..Len(pathname) : pathname[i] \in B0Segments
  ELSE IF hostname = <<"openlibrary", "org">>
  THEN \E first \in {"api", "search", "works", "books"} :
         StartsWithSegment(pathname, first)
  ELSE ~ \/ \E i \in 1..(Len(pathname) - 1) : pathname[i] \in {"etc", "proc"}
         \/ \E i \in 1..Len(pathname) : pathname[i] \in AdminSegments
         \/ \E i \in 1..(Len(pathname) - 2) :
              /\ pathname[i] = "api"
              /\ pathname[i + 1] \in InternalApiVersions
              /\ pathname[i + 2] \in {"internal", "internals"}

allowedParams == {"id", "format", "export"}
trackingParams == {"ref", "tag", "linkCode", "camp", "creative", "creativeASIN"}

\* sanitizeUrl that deletes tracking parameters while it iterates over them
\* and so removes one tracking parameter per call
sanitizeUrl_OnePerPass(parsedUrl) ==
  LET noHash == [parsedUrl EXCEPT !.hash = FALSE]
      google == IF noHash.host = <<"docs", "google", "com">>
                THEN [noHash EXCEPT !.query = noHash.query \cap allowedParams]
                ELSE noHash
      tracking == google.query \cap trackingParams
  IN IF IncludesAmazonCom(google.host) /\ tracking # {}
     THEN [google EXCEPT !.query =
             google.query \ {CHOOSE p \in tracking : TRUE}]
     ELSE google

sanitizeUrl(parsedUrl) ==
  LET noHash == [parsedUrl EXCEPT !.hash = FALSE]
      google == IF noHash.host = <<"docs", "google", "com">>
                THEN [noHash EXCEPT !.query = noHash.query \cap allowedParams]
                ELSE noHash
  IN IF IncludesAmazonCom(google.host)
     THEN [google EXCEPT !.query = google.query \ trackingParams]
     ELSE google

Invalid(error) == [isValid |-> FALSE, sanitizedUrl |-> NotAUrl, error |-> error]

\* validateUrl that tests the allowlist before the blocklist and accepts on
\* an allowlist match
validateUrl_AllowFirst(url) ==
  IF url = NotAUrl THEN Invalid("Invalid URL format")
  ELSE IF url.protocol \notin ALLOWED_PROTOCOLS THEN Invalid("Protocol not allowed")
  ELSE IF isAllowedDomain(url.host) /\ isValidPath(url.host, url.path)
  THEN [isValid |-> TRUE, sanitizedUrl |-> sanitizeUrl(url), error |-> ""]
  ELSE Invalid("Domain not in allowlist")

validateUrl(url) ==
  IF url = NotAUrl THEN Invalid("Invalid URL format")
  ELSE IF url.protocol \notin ALLOWED_PROTOCOLS THEN Invalid("Protocol not allowed")
  ELSE IF isBlockedDomain(url.host) THEN Invalid("Domain is blocked")
  ELSE IF ~isAllowedDomain(url.host) THEN Invalid("Domain not in allowlist")
  ELSE IF url.port # NoPort /\ isDangerousPort(url.port)
  THEN Invalid("Dangerous port detected")
  ELSE IF ~isValidPath(url.host, url.path) THEN Invalid("Invalid path for domain")
  ELSE [isValid |-> TRUE, sanitizedUrl |-> sanitizeUrl(url), error |-> ""]

\* A network request as it leaves the process: its URL, and whether it was
\* issued by safeFetch, that is after validateUrl accepted the URL.
Request(url, gated) == [url |-> url, gated |-> gated]

\* safeFetch that issues the request before it looks at the validation
safeFetch_FetchFirst(url, networkOk) ==
  LET validation == validateUrl(url)
  IN [ threw |-> ~validation.isValid \/ ~networkOk,
       error |-> IF ~validation.isValid THEN "URL validation failed"
                 ELSE IF ~networkOk THEN "fetch failed" ELSE "",
       issued |-> {Request(url, validation.isValid)} ]

\* safeFetch: what it throws and the requests it issues; networkOk is whether
\* fetch() itself resolves
safeFetch(url, networkOk) ==
  LET validation == validateUrl(url)
  IN IF ~validation.isValid
     THEN [threw |-> TRUE, error |-> "URL validation failed", issued |-> {}]
     ELSE [ threw |-> ~networkOk,
            error |-> IF networkOk THEN "" ELSE "fetch failed",
            issued |-> {Request(validation.sanitizedUrl, TRUE)} ]

RECURSIVE filterValidUrls(_)
filterValidUrls(urls) ==
  IF urls = <<>> THEN <<>>
  ELSE LET result == validateUrl(Head(urls))
       IN IF result.isValid /\ result.sanitizedUrl # NotAUrl
          THEN <<result.sanitizedUrl>> \o filterValidUrls(Tail(urls))
          ELSE filterValidUrls(Tail(urls))

\* -------------------------------------------------------- OptimizedScraper
\* The product links a sources document can hold, after sanitising; a URL is
\* its host and the segments of its path.
Links ==
  { [host |-> "www.amazon.com", path |-> <<"dp", "B000000001">>],
    [host |-> "www.amazon.com", path |-> <<"Zero-One", "dp", "B000000001">>],
    [host |-> "www.amazon.com", path |-> <<"dp", "B000000002">>] }

\* the segments that match [A-Z0-9]{10}; both start with B
Asins == {"B000000001", "B000000002"}
NoAsin == ""

\* /\/dp\/([A-Z0-9]{10})/ : the ASIN that follows a "dp" segment, or else
\* /\/([B][0-9A-Z]{9})/ : the first segment that is an ASIN; NoAsin is null
extractASIN(amazonUrl) ==
  LET p == amazonUrl.path
      afterDp == { k \in 2..Len(p) : p[k - 1] = "dp" /\ p[k] \in Asins }
      anyB == { k \in 1..Len(p) : p[k] \in Asins }
      first(S) == CHOOSE k \in S : \A j \in S : k <= j
  IN IF afterDp # {} THEN p[first(afterDp)]
     ELSE IF anyB # {} THEN p[first(anyB)]
     ELSE NoAsin

\* href.includes('amazon.com') on the whole href: the hostname holds it, or a
\* segment of the path does
HrefIncludesAmazon(url) ==
  IncludesAmazonCom(url.host) \/ \E i \in 1..Len(url.path) : url.path[i] = "amazon.com"

\* cleanUrl.includes('/dp/') || cleanUrl.match(/\/[B][0-9A-Z]{9}/)
LooksLikeBookLink(url) ==
  \/ \E i \in 1..(Len(url.path) - 1) : url.path[i] = "dp"
  \/ \E i \in 1..Len(url.path) : url.path[i] \in B0Segments

RECURSIVE Unique(_, _)
\* [...new Set(amazonLinks)]: first occurrences, in order
Unique(links, seen) ==
  IF links = <<>> THEN <<>>
  ELSE IF Head(links) \in seen THEN Unique(Tail(links), seen)
  ELSE <<Head(links)>> \o Unique(Tail(links), seen \cup {Head(links)})

RECURSIVE amazonLinksOf_NoGuard(_)
\* the loop over the anchors without the validateUrl test of line 374
amazonLinksOf_NoGuard(hrefs) ==
  IF hrefs = <<>> THEN <<>>
  ELSE LET cleanUrl == Head(hrefs)
           rest == amazonLinksOf_NoGuard(Tail(hrefs))
       IN IF HrefIncludesAmazon(cleanUrl) /\ LooksLikeBookLink(cleanUrl)
          THEN <<sanitizeUrl(cleanUrl)>> \o rest
          ELSE rest

RECURSIVE amazonLinksOf(_)
\* the loop over the anchors of the exported document (hrefs are given with
\* the Google redirect wrapper already taken off)
amazonLinksOf(hrefs) ==
  IF hrefs = <<>> THEN <<>>
  ELSE LET cleanUrl == Head(hrefs)
           rest == amazonLinksOf(Tail(hrefs))
       IN IF HrefIncludesAmazon(cleanUrl) /\ LooksLikeBookLink(cleanUrl)
          THEN LET validation == validateUrl(cleanUrl)
               IN IF validation.isValid /\ validation.sanitizedUrl # NotAUrl
                  THEN <<validation.sanitizedUrl>> \o rest
                  ELSE rest
          ELSE rest

\* extractAmazonLinksFromGoogleDoc once the document's HTML is there: the
\* unique links, or a throw when there is none
extractAmazonLinksFromGoogleDoc_NoGuard(hrefs) ==
  LET uniqueLinks == Unique(amazonLinksOf_NoGuard(hrefs), {})
  IN [threw |-> uniqueLinks = <<>>, links |-> uniqueLinks]

extractAmazonLinksFromGoogleDoc(hrefs) ==
  LET uniqueLinks == Unique(amazonLinksOf(hrefs), {})
  IN [threw |-> uniqueLinks = <<>>, links |-> uniqueLinks]

\* metadata titles and authors, with what the validation gate looks at
ContainsUnknown(s) == s \in {"Unknown", "Unknown Title", "Unknown Author"}
blocklist == {"Dp", "Coca-Cola"}

Null == [title |-> "", author |-> "", isNull |-> TRUE]
Meta(title, author) == [title |-> title, author |-> author, isNull |-> FALSE]
Metadata ==
  { Meta("Zero to One", "Peter Thiel"),
    Meta("Unknown Title", "Unknown Author") }

validateBook(book) ==
  IF Len(book.title) < MinTitleLength THEN FALSE
  ELSE IF ContainsUnknown(book.title) \/ ContainsUnknown(book.author) THEN FALSE
  ELSE IF book.title \in blocklist THEN FALSE
  ELSE TRUE

extractSeasonFromTitle(title, t) == EpochYear + (t \div HoursPerYear)

extractEpisodeFromTitle(title, t) ==
  IF \E i \in 1..(Len(title) - 1) : title[i] = "episode" /\ title[i + 1] \in {"7"}
  THEN 7
  ELSE (t * SecondsPerHour) % EpisodeNumberModulus

RECURSIVE createBookObjectsFrom(_, _, _, _, _)
createBookObjectsFrom(i, bookMetadata, amazonUrls, episode, t) ==
  IF i > Len(amazonUrls) THEN <<>>
  ELSE
    LET metadata == IF i <= Len(bookMetadata) THEN bookMetadata[i] ELSE Null
        rest == createBookObjectsFrom(i + 1, bookMetadata, amazonUrls, episode, t)
    IN IF metadata.isNull THEN rest
       ELSE
         LET asin == extractASIN(amazonUrls[i])
             book == [ id |-> IF asin # NoAsin THEN asin ELSE "automated",
                       title |-> metadata.title,
                       author |-> metadata.author,
                       amazonUrl |-> amazonUrls[i],
                       episodeRef |->
                         [ name |-> episode.title,
                           seasonNumber |-> extractSeasonFromTitle(episode.title, t),
                           episodeNumber |-> extractEpisodeFromTitle(episode.title, t) ],
                       addedAt |-> t,
                       source |-> "automated" ]
         IN IF validateBook(book) THEN <<book>> \o rest ELSE rest

createBookObjects(bookMetadata, amazonUrls, episode, t) ==
  createBookObjectsFrom(1, bookMetadata, amazonUrls, episode, t)

\* processEpisode: doc is the list of unique product links extracted from the
\* episode's sources document (<<>> when the page, the document or the links
\* are not there: every such path returns []); metas is what
\* getBooksMetadata returned for them.
processEpisode(episodeProcessing, doc, metas, t) ==
  IF doc = <<>> THEN <<>>
  ELSE createBookObjects(metas, doc, episodeProcessing.episode, t)

\* the comparator of allBooks.sort: season descending, then episode descending
SortsBefore(a, b) ==
  IF a.episodeRef.seasonNumber # b.episodeRef.seasonNumber
  THEN a.episodeRef.seasonNumber > b.episodeRef.seasonNumber
  ELSE a.episodeRef.episodeNumber > b.episodeRef.episodeNumber

RECURSIVE InsertSorted(_, _)
\* stable insertion: b goes after every element that does not sort after it
InsertSorted(sorted, b) ==
  IF sorted = <<>> THEN <<b>>
  ELSE IF SortsBefore(b, Head(sorted)) THEN <<b>> \o sorted
  ELSE <<Head(sorted)>> \o InsertSorted(Tail(sorted), b)

RECURSIVE SortBooks(_)
\* Array.prototype.sort is stable
SortBooks(books) ==
  IF books = <<>> THEN <<>>
  ELSE InsertSorted(SortBooks(SubSeq(books, 1, Len(books) - 1)), books[Len(books)])

\* what JSON.parse of the catalog file gives inside the inner try/catch
CatalogEntries(file) == IF file.state = "ok" THEN file.content ELSE <<>>

BookIds(books) == { books[i].id : i \in 1..Len(books) }

\* updateBooksDatabase without the filter on existing ids
updateBooksDatabaseOf_NoDedup(file, newBooks) ==
  IF newBooks = <<>> THEN file
  ELSE FileOf(SortBooks(CatalogEntries(file) \o newBooks))

\* updateBooksDatabase that writes the new books alone
updateBooksDatabaseOf_OnlyNew(file, newBooks) ==
  LET existingIds == BookIds(CatalogEntries(file))
      uniqueNewBooks == SelectSeqBy(newBooks,
                          { b \in Range(newBooks) : b.id \notin existingIds })
  IN IF uniqueNewBooks = <<>> THEN file
     ELSE FileOf(SortBooks(uniqueNewBooks))

updateBooksDatabaseOf(file, newBooks) ==
  LET existingBooks == CatalogEntries(file)
      existingIds == BookIds(existingBooks)
      uniqueNewBooks == SelectSeqBy(newBooks,
                          { b \in Range(newBooks) : b.id \notin existingIds })
  IN IF uniqueNewBooks = <<>> THEN file
     ELSE FileOf(SortBooks(existingBooks \o uniqueNewBooks))

RECURSIVE DedupById_LastWins(_, _)
\* the deduplication of run() with the last occurrence kept
DedupById_LastWins(eps, seen) ==
  IF eps = <<>> THEN <<>>
  ELSE IF Head(eps).episode.id \in QueueIds(Tail(eps))
  THEN DedupById_LastWins(Tail(eps), seen)
  ELSE <<Head(eps)>> \o DedupById_LastWins(Tail(eps), seen)

\* deduplicate by episode id, first occurrence wins
RECURSIVE DedupById(_, _)
DedupById(eps, seen) ==
  IF eps = <<>> THEN <<>>
  ELSE IF Head(eps).episode.id \in seen THEN DedupById(Tail(eps), seen)
  ELSE <<Head(eps)>> \o DedupById(Tail(eps), seen \cup {Head(eps).episode.id})

\* ------------------------------------------------------------------- state
VARIABLES
  now,            \* the clock, in hours
  feed,           \* the items the feed URL serves, newest first
  lastCheckFile,  \* data/last-rss-check.json: Missing or a timestamp
  pendingFile,    \* data/pending-episodes.json (a missing file reads as [])
  booksFile,      \* public/data/books.json: Missing, Corrupt or the entries
  pc,             \* position of run()
  rssData,        \* what fetchRSSFeed returned in this run
  newEpisodes,    \* run(): newEpisodes
  toProcess,      \* run(): the rest of allEpisodesToProcess
  allNewBooks,    \* run(): allNewBooks
  attempts,       \* history: requeueEpisode calls per episode since detection
  requests,       \* the network requests the last step issued
  notifications,  \* the webhook messages this run has sent, in order
  dropped,        \* history: entries this run's validation gate has dropped
  args,           \* the arguments of the call under way (function checks)
  returned        \* what that call returned

vars == <<now, feed, lastCheckFile, pendingFile, booksFile, pc, rssData,
          newEpisodes, toProcess, allNewBooks, attempts, requests,
          notifications, dropped, args, returned>>

\* no function call is under way
NoCall == [op |-> "none"]
callVars == <<args, returned>>

manualBook ==
  [ id |-> "B000000001", title |-> "Zero to One", author |-> "Peter Thiel",
    amazonUrl |-> [host |-> "www.amazon.com", path |-> <<"dp", "B000000001">>],
    episodeRef |-> [name |-> <<"widgets", "inc">>, seasonNumber |-> EpochYear,
                    episodeNumber |-> 0],
    addedAt |-> 0, source |-> "automated" ]

Init ==
  /\ now = 0
  /\ feed = <<>>
  /\ lastCheckFile = Missing
  /\ pendingFile = <<>>
  /\ booksFile \in {Missing, Corrupt, FileOf(<<manualBook>>)}
  /\ pc = "idle"
  /\ rssData = Failed
  /\ newEpisodes = <<>>
  /\ toProcess = <<>>
  /\ allNewBooks = <<>>
  /\ attempts = [e \in EpisodeIds |-> 0]
  /\ requests = {}
  /\ notifications = <<>>
  /\ dropped = 0
  /\ args = NoCall
  /\ returned = NoCall

\* ------------------------------------------------- URLs the run requests
rssUrl == Url("https:", <<"feeds", "transistor", "fm">>, NoPort, <<"acquired">>, {}, FALSE)
\* the link of a feed item: the episode's page
episodePageUrl ==
  Url("https:", <<"www", "acquired", "fm">>, NoPort, <<"episodes", "episode">>, {}, FALSE)
\* https://docs.google.com/document/d/${docId}/export?format=html
docExportUrl ==
  Url("https:", <<"docs", "google", "com">>, NoPort,
      <<"document", "d", "docId", "export">>, {"format"}, FALSE)
\* https://openlibrary.org/search.json?q=${asin}
isbnSearchUrl ==
  Url("https:", <<"openlibrary", "org">>, NoPort, <<"search.json">>, {"q"}, FALSE)
\* https://images-na.ssl-images-amazon.com/images/P/${asin}.01.L.jpg
amazonCoverUrl ==
  Url("https:", <<"images-na", "ssl-images-amazon", "com">>, NoPort,
      <<"images", "P", "B000000001.01.L.jpg">>, {}, FALSE)
\* https://covers.openlibrary.org/b/id/${cover_i}-L.jpg
openLibraryCoverUrl ==
  Url("https:", <<"covers", "openlibrary", "org">>, NoPort,
      <<"b", "id", "1-L.jpg">>, {}, FALSE)
\* DISCORD_WEBHOOK_URL
webhookUrl ==
  Url("https:", <<"discord", "com">>, NoPort, <<"api", "webhooks", "1", "token">>,
      {}, FALSE)

\* ----------------------------------------------------------- DiscordNotifier
\* what fetch(webhookUrl) does: resolves ok, resolves with a non-OK status,
\* or rejects
WebhookOutcomes == {"ok", "rejected", "networkError"}

\* sendWebhook that lets a network error escape
sendWebhook_Rethrow(outcome) ==
  [ threw |-> outcome = "networkError",
    delivered |-> outcome = "ok",
    issued |-> {Request(webhookUrl, FALSE)} ]

sendWebhook(outcome) ==
  [ threw |-> FALSE,
    delivered |-> outcome = "ok",
    issued |-> {Request(webhookUrl, FALSE)} ]

\* one message of the notifier: its method, the number of books it lists, the
\* error it reports, and whether the webhook took it
Notification(kind, count, error, sent) ==
  [kind |-> kind, count |-> count, error |-> error, delivered |-> sent.delivered]

\* the catch block of run(): notifyError, then the error is thrown again
notifyError(error, outcome) ==
  <<Notification("error", 0, error, sendWebhook(outcome))>>

\* ------------------------------------------------------------- environment
\* the clock is read in whole hours: it advances between runs and while the
\* feed request is in flight
Tick ==
  /\ pc \in {"idle", "check"}
  /\ now < MaxTime
  /\ now' = now + 1
  /\ requests' = {}
  /\ UNCHANGED <<feed, lastCheckFile, pendingFile, booksFile, pc, rssData,
                 newEpisodes, toProcess, allNewBooks, attempts, notifications,
                 dropped, callVars>>

\* the podcast publishes an episode: the feed serves it from now on
Publish ==
  /\ pc \in {"idle", "check"}
  /\ Len(feed) < MaxFeedItems
  /\ feed' = <<[id |-> Len(feed) + 1, title |-> TitleOf(Len(feed) + 1),
                pubDate |-> now]>> \o feed
  /\ requests' = {}
  /\ UNCHANGED <<now, lastCheckFile, pendingFile, booksFile, pc, rssData,
                 newEpisodes, toProcess, allNewBooks, attempts, notifications,
                 dropped, callVars>>

\* --------------------------------------------------------------------- run
StartRun ==
  /\ pc = "idle"
  /\ pc' = "rss"
  /\ requests' = {}
  /\ UNCHANGED <<now, feed, lastCheckFile, pendingFile, booksFile, rssData,
                 newEpisodes, toProcess, allNewBooks, attempts, notifications,
                 dropped, callVars>>

\* checkForNewEpisodes, first half: fetchRSSFeed and parseRSSFeed
FetchRSSFeed ==
  /\ pc = "rss"
  /\ rssData' \in {Fetched(feed), Failed}
  /\ pc' = "check"
  /\ requests' = {Request(rssUrl, FALSE)}
  /\ UNCHANGED <<now, feed, lastCheckFile, pendingFile, booksFile,
                 newEpisodes, toProcess, allNewBooks, attempts, notifications,
                 dropped, callVars>>

\* checkForNewEpisodes, second half
\* checkForNewEpisodes that stamps the last-check time on a failed fetch too
CheckForNewEpisodes_StampOnFailure ==
  /\ pc = "check"
  /\ pc' = "ready"
  /\ IF ~rssData.ok
     THEN /\ newEpisodes' = <<>>
          /\ lastCheckFile' = FileOf(now)
          /\ UNCHANGED <<pendingFile, attempts>>
     ELSE LET lastCheck == getLastCheckTime(lastCheckFile, now)
              episodes == rssData.items
              fresh == SelectSeqBy(episodes,
                         { e \in Range(episodes) : e.pubDate > lastCheck })
          IN IF fresh = <<>>
             THEN /\ newEpisodes' = <<>>
                  /\ lastCheckFile' = FileOf(now)
                  /\ UNCHANGED <<pendingFile, attempts>>
             ELSE LET queuedEpisodes == queueEpisodesForProcessing(fresh, now)
                  IN /\ pendingFile' = queuedEpisodes
                     /\ lastCheckFile' = FileOf(now)
                     /\ newEpisodes' = queuedEpisodes
                     /\ attempts' = [e \in EpisodeIds |->
                                       IF e \in QueueIds(queuedEpisodes)
                                       THEN 0 ELSE attempts[e]]
  /\ rssData' = Failed
  /\ requests' = {}
  /\ UNCHANGED <<now, feed, booksFile, toProcess, allNewBooks, notifications,
                 dropped, callVars>>

CheckForNewEpisodes ==
  /\ pc = "check"
  /\ pc' = "ready"
  /\ IF ~rssData.ok
     THEN /\ newEpisodes' = <<>>
          /\ UNCHANGED <<lastCheckFile, pendingFile, attempts>>
     ELSE LET lastCheck == getLastCheckTime(lastCheckFile, now)
              episodes == rssData.items
              fresh == SelectSeqBy(episodes,
                         { e \in Range(episodes) : e.pubDate > lastCheck })
          IN IF fresh = <<>>
             THEN /\ newEpisodes' = <<>>
                  /\ lastCheckFile' = FileOf(now)
                  /\ UNCHANGED <<pendingFile, attempts>>
             ELSE LET queuedEpisodes == queueEpisodesForProcessing(fresh, now)
                  IN /\ pendingFile' = queuedEpisodes
                     /\ lastCheckFile' = FileOf(now)
                     /\ newEpisodes' = queuedEpisodes
                     /\ attempts' = [e \in EpisodeIds |->
                                       IF e \in QueueIds(queuedEpisodes)
                                       THEN 0 ELSE attempts[e]]
  /\ rssData' = Failed
  /\ requests' = {}
  /\ UNCHANGED <<now, feed, booksFile, toProcess, allNewBooks, notifications,
                 dropped, callVars>>

\* getReadyEpisodes and the deduplication of run(); with nothing to process
\* the run sends notifyNoNewBooks and returns
GetReadyEpisodes ==
  /\ pc = "ready"
  /\ LET readyEpisodes == getReadyEpisodesOf(pendingFile, now)
         all == DedupById(newEpisodes \o readyEpisodes, {})
     IN /\ toProcess' = all
        /\ IF all # <<>>
           THEN /\ pc' = "process"
                /\ requests' = {}
                /\ UNCHANGED notifications
           ELSE \E outcome \in WebhookOutcomes :
                \E errorOutcome \in
                     (IF sendWebhook(outcome).threw THEN WebhookOutcomes ELSE {"ok"}) :
                  LET sent == sendWebhook(outcome)
                      note == <<Notification("noNewBooks", 0, "", sent)>>
                  IN /\ requests' = sent.issued
                     /\ IF sent.threw
                        THEN /\ notifications' =
                                  note \o notifyError("webhook failed", errorOutcome)
                             /\ pc' = "failed"
                        ELSE /\ notifications' = note
                             /\ pc' = "done"
  /\ UNCHANGED <<now, feed, lastCheckFile, pendingFile, booksFile, rssData,
                 newEpisodes, allNewBooks, attempts, dropped, callVars>>

LinkSeqs ==
  { s \in UNION { [1..n -> Links] : n \in 0..MaxLinks } :
      \A i, j \in 1..Len(s) : i # j => s[i] # s[j] }

\* The requests processEpisode is certain to issue: the episode page and the
\* sources document through safeFetch, and one Open Library search per link
\* through fetchWithRetry (every link of Links holds an ASIN).  The cover
\* probes and the cover download depend on what Open Library holds.
requestsOfProcessEpisode(doc) ==
  safeFetch(episodePageUrl, TRUE).issued
    \cup IF doc = <<>> THEN {}
         ELSE safeFetch(docExportUrl, TRUE).issued
                \cup {Request(isbnSearchUrl, FALSE)}

\* the entries createBookObjects built and validateBook refused
droppedBy(doc, metas) ==
  Cardinality({ i \in 1..Len(doc) :
                  ~metas[i].isNull
                  /\ ~validateBook([title |-> metas[i].title,
                                    author |-> metas[i].author]) })

\* one pass of the for loop of run()
ProcessEpisode ==
  /\ pc = "process"
  /\ toProcess # <<>>
  /\ \E doc \in LinkSeqs :
     \E metas \in [1..Len(doc) -> Metadata \cup {Null}] :
       LET ep == Head(toProcess)
           books == processEpisode(ep, doc, metas, now)
       IN /\ IF Len(books) > 0
             THEN /\ allNewBooks' = allNewBooks \o books
                  /\ pendingFile' = markEpisodeProcessedOf(pendingFile, ep.episode.id)
                  /\ UNCHANGED attempts
             ELSE /\ pendingFile' = requeueEpisodeOf(pendingFile, ep.episode.id, FALSE, now)
                  /\ attempts' = [attempts EXCEPT ![ep.episode.id] = @ + 1]
                  /\ UNCHANGED allNewBooks
          /\ requests' = requestsOfProcessEpisode(doc)
          /\ dropped' = dropped + droppedBy(doc, metas)
  /\ toProcess' = Tail(toProcess)
  /\ pc' = IF Tail(toProcess) = <<>> THEN "update" ELSE "process"
  /\ UNCHANGED <<now, feed, lastCheckFile, booksFile, rssData, newEpisodes,
                 notifications, callVars>>

\* books of allNewBooks with "Unknown" in title or author (run(), line 130)
unknownBooksOf(books) ==
  SelectSeqBy(books, { b \in Range(books) :
                         ContainsUnknown(b.title) \/ ContainsUnknown(b.author) })

\* phase 4 of run(): updateBooksDatabase, whose write may throw, then the
\* notifications; every throw lands in the catch block of run()
UpdateBooksDatabase ==
  /\ pc = "update"
  /\ IF Len(allNewBooks) = 0
     THEN /\ pc' = "done"
          /\ requests' = {}
          /\ UNCHANGED <<booksFile, notifications>>
     ELSE \E writeOk \in BOOLEAN :
          \E addedOutcome \in WebhookOutcomes :
          \E unknownOutcome \in
               (IF unknownBooksOf(allNewBooks) = <<>> THEN {"ok"} ELSE WebhookOutcomes) :
          \E errorOutcome \in
               (IF ~writeOk \/ sendWebhook(addedOutcome).threw
                   \/ sendWebhook(unknownOutcome).threw
                THEN WebhookOutcomes ELSE {"ok"}) :
            LET written == updateBooksDatabaseOf(booksFile, allNewBooks)
                writeThrew == written # booksFile /\ ~writeOk
                added == sendWebhook(addedOutcome)
                addedNote ==
                  <<Notification("booksAdded", Len(allNewBooks), "", added)>>
                unknownBooks == unknownBooksOf(allNewBooks)
                unknown == sendWebhook(unknownOutcome)
                unknownNote ==
                  IF unknownBooks = <<>> \/ added.threw THEN <<>>
                  ELSE <<Notification("unknownMetadata", Len(unknownBooks), "",
                                      unknown)>>
                webhookThrew ==
                  added.threw \/ (unknownBooks # <<>> /\ unknown.threw)
            IN IF writeThrew
               THEN /\ booksFile' = booksFile
                    /\ notifications' = notifyError("write failed", errorOutcome)
                    /\ requests' = sendWebhook(errorOutcome).issued
                    /\ pc' = "failed"
               ELSE /\ booksFile' = written
                    /\ requests' = added.issued
                    /\ IF webhookThrew
                       THEN /\ notifications' =
                                 addedNote \o unknownNote
                                   \o notifyError("webhook failed", errorOutcome)
                            /\ pc' = "failed"
                       ELSE /\ notifications' = addedNote \o unknownNote
                            /\ pc' = "done"
  /\ UNCHANGED <<now, feed, lastCheckFile, pendingFile, rssData, newEpisodes,
                 toProcess, allNewBooks, attempts, dropped, callVars>>

\* run() returns or throws: its locals go out of scope
FinishRun ==
  /\ pc \in {"done", "failed"}
  /\ pc' = "idle"
  /\ newEpisodes' = <<>>
  /\ toProcess' = <<>>
  /\ allNewBooks' = <<>>
  /\ requests' = {}
  /\ notifications' = <<>>
  /\ dropped' = 0
  /\ UNCHANGED <<now, feed, lastCheckFile, pendingFile, booksFile, rssData,
                 attempts, callVars>>

Next ==
  \/ Tick
  \/ Publish
  \/ StartRun
  \/ FetchRSSFeed
  \/ CheckForNewEpisodes
  \/ GetReadyEpisodes
  \/ ProcessEpisode
  \/ UpdateBooksDatabase
  \/ FinishRun

Spec == Init /\ [][Next]_vars

\* ---------------------------------------------- requeueEpisode on any record
\* The queue file as a run finds it when it is about to process one record:
\* the record's type and retry count are drawn from every value the file
\* format allows (EpisodeType, retryCount >= 0).
DrawnRecords ==
  { [ episode |-> [id |-> 1, title |-> TitleOf(1), pubDate |-> 0],
      detectedAt |-> 0,
      processAfter |-> 0,
      retryCount |-> n,
      hasGoogleDoc |-> "undefined",
      episodeType |-> ty ] :
    n \in 0..MaxRetryDrawn, ty \in {REGULAR, INTERVIEW, SPECIAL, UNKNOWN} }

InitRequeue ==
  /\ now = 0
  /\ feed = <<[id |-> 1, title |-> TitleOf(1), pubDate |-> 0]>>
  /\ lastCheckFile = FileOf(0)
  /\ \E r \in DrawnRecords :
       /\ pendingFile = <<r>>
       /\ toProcess = <<r>>
  /\ booksFile \in {Missing, FileOf(<<manualBook>>)}
  /\ pc = "process"
  /\ rssData = Failed
  /\ newEpisodes = <<>>
  /\ allNewBooks = <<>>
  /\ attempts = [e \in EpisodeIds |-> 0]
  /\ requests = {}
  /\ notifications = <<>>
  /\ dropped = 0
  /\ args = NoCall
  /\ returned = NoCall

RequeueSpec == InitRequeue /\ [][Next]_vars

\* ------------------------------------------- the URL guard on any URL
\* The URLs handed to the guard: every combination of these parts, and a
\* string that does not parse.
GuardProtocols == {"https:", "http:", "ftp:"}
GuardHosts ==
  { <<"www", "amazon", "com">>, <<"amazon", "com">>, <<"smile", "amazon", "com">>,
    <<"docs", "google", "com">>, <<"openlibrary", "org">>,
    <<"www", "acquired", "fm">>, <<"discord", "com">>, <<"evil", "com">>,
    <<"notamazon", "com">>, <<"amazon", "com", "evil", "com">>,
    <<"localhost">>, <<"localhost", "amazon", "com">>, <<"[::1]">>,
    <<"127", "0", "0", "1">>, <<"0", "0", "0", "0">>, <<"10", "0", "0", "1">>,
    <<"172", "16", "0", "1">>, <<"172", "32", "0", "1">>,
    <<"192", "168", "1", "1">>, <<"169", "254", "169", "254">>,
    <<"metadata", "google", "internal">>, <<"printer", "local">> }
SshPort == 22
AltHttpsPort == 8443
GuardPorts == {NoPort, SshPort, AltHttpsPort}
GuardPaths ==
  { <<>>, <<"dp", "B000000001">>, <<"Zero-One", "dp", "B000000001">>,
    <<"gp", "product", "B000000002">>, <<"document", "d", "docId", "edit">>,
    <<"search.json">>, <<"works", "OL1W">>, <<"episodes", "episode">>,
    <<"admin">>, <<"etc", "passwd">>, <<"amazon.com", "dp", "B000000001">> }
GuardQueries == { {}, {"tag", "id", "usp"}, {"ref", "tag"} }

GuardUrls ==
  { Url(protocol, host, port, path, query, hash) :
      protocol \in GuardProtocols, host \in GuardHosts, port \in GuardPorts,
      path \in GuardPaths, query \in GuardQueries, hash \in BOOLEAN }
    \cup {NotAUrl}

\* the anchors of a sources document
Hrefs ==
  { Url("https:", <<"www", "amazon", "com">>, NoPort, <<"dp", "B000000001">>,
        {"tag"}, FALSE),
    Url("https:", <<"www", "amazon", "com">>, NoPort,
        <<"Zero-One", "dp", "B000000001">>, {}, TRUE),
    Url("https:", <<"amazon", "com">>, NoPort, <<"gp", "product", "B000000002">>,
        {}, FALSE),
    Url("http:", <<"169", "254", "169", "254">>, NoPort, <<>>, {}, FALSE),
    Url("http:", <<"169", "254", "169", "254">>, NoPort,
        <<"amazon.com", "dp", "B000000001">>, {}, FALSE),
    Url("https:", <<"localhost", "amazon", "com">>, NoPort,
        <<"dp", "B000000001">>, {}, FALSE),
    Url("https:", <<"amazon", "com", "evil", "com">>, NoPort,
        <<"dp", "B000000002">>, {}, FALSE),
    Url("https:", <<"www", "amazon", "com">>, SshPort, <<"dp", "B000000002">>,
        {}, FALSE) }
MaxHrefs == 3
HrefSeqs == UNION { [1..n -> Hrefs] : n \in 1..MaxHrefs }

UrlCall(url) == [op |-> "url", url |-> url, hrefs |-> <<>>]
HrefsCall(hrefs) == [op |-> "hrefs", url |-> NotAUrl, hrefs |-> hrefs]
Returned(op, result) == [op |-> op, result |-> result]

InitGuard ==
  /\ now = 0
  /\ feed = <<>>
  /\ lastCheckFile = Missing
  /\ pendingFile = <<>>
  /\ booksFile = Missing
  /\ pc = "call"
  /\ rssData = Failed
  /\ newEpisodes = <<>>
  /\ toProcess = <<>>
  /\ allNewBooks = <<>>
  /\ attempts = [e \in EpisodeIds |-> 0]
  /\ requests = {}
  /\ notifications = <<>>
  /\ dropped = 0
  /\ args \in { UrlCall(u) : u \in GuardUrls } \cup { HrefsCall(h) : h \in HrefSeqs }
  /\ returned = NoCall

runVars ==
  <<now, feed, lastCheckFile, pendingFile, booksFile, rssData, newEpisodes,
    toProcess, allNewBooks, attempts, notifications, dropped>>

ValidateUrl ==
  /\ pc = "call" /\ args.op = "url"
  /\ returned' = Returned("validateUrl", validateUrl(args.url))
  /\ requests' = {}
  /\ pc' = "returned"
  /\ UNCHANGED <<runVars, args>>

SafeFetch ==
  /\ pc = "call" /\ args.op = "url"
  /\ \E networkOk \in BOOLEAN :
       LET result == safeFetch(args.url, networkOk)
       IN /\ returned' = Returned("safeFetch", result)
          /\ requests' = result.issued
  /\ pc' = "returned"
  /\ UNCHANGED <<runVars, args>>

FilterValidUrls ==
  /\ pc = "call" /\ args.op = "hrefs"
  /\ returned' = Returned("filterValidUrls", filterValidUrls(args.hrefs))
  /\ requests' = {}
  /\ pc' = "returned"
  /\ UNCHANGED <<runVars, args>>

\* extractAmazonLinksFromGoogleDoc on a document whose export is fetched
\* (through safeFetch) and holds the anchors args.hrefs
ExtractAmazonLinksFromGoogleDoc ==
  /\ pc = "call" /\ args.op = "hrefs"
  /\ returned' = Returned("extractAmazonLinksFromGoogleDoc",
                          extractAmazonLinksFromGoogleDoc(args.hrefs))
  /\ requests' = safeFetch(docExportUrl, TRUE).issued
  /\ pc' = "returned"
  /\ UNCHANGED <<runVars, args>>

GuardNext ==
  \/ ValidateUrl
  \/ SafeFetch
  \/ FilterValidUrls
  \/ ExtractAmazonLinksFromGoogleDoc

GuardSpec == InitGuard /\ [][GuardNext]_vars

\* ------------------------------------------------------------ openLibrary
BATCH_SIZE == 10

NoTitle == ""
GpSegments == {"gp"}

\* the replace chain of extractBookInfo: dashes to spaces, the words ebook,
\* kindle, edition, ... removed, trimmed
CleanTitle(segment) ==
  CASE segment = "Zero-One" -> "Zero One"
    [] segment = "Kindle-Edition" -> NoTitle
    [] OTHER -> segment

LowerTitle(title) ==
  CASE title = "Zero One" -> "zero one"
    [] title = "Zero to One" -> "zero to one"
    [] OTHER -> title

\* asin: /\/dp\/([A-Z0-9]{10})/ or else /\/([B][0-9A-Z]{9})/ ; title: both
\* patterns take the first segment after amazon.com/
extractBookInfo(url) ==
  LET p == url.path
      afterDp == { k \in 2..Len(p) : p[k - 1] = "dp" /\ p[k] \in Asins }
      anyB == { k \in 1..Len(p) : p[k] \in Asins }
      first(S) == CHOOSE k \in S : \A j \in S : k <= j
      titleMatch ==
        IF /\ Len(url.host) >= 2
           /\ SubSeq(url.host, Len(url.host) - 1, Len(url.host)) = <<"amazon", "com">>
           /\ p # <<>>
        THEN p[1] ELSE ""
  IN [ asin |-> IF afterDp # {} THEN p[first(afterDp)]
                ELSE IF anyB # {} THEN p[first(anyB)]
                ELSE NoAsin,
       title |-> IF titleMatch # "" /\ titleMatch \notin GpSegments
                 THEN CleanTitle(titleMatch) ELSE NoTitle ]

\* amazonUrl.split('/dp/')[0].split('/').pop(), cleaned: the segment before
\* the first /dp/, the hostname when /dp/ comes first, the last segment when
\* there is no /dp/
searchTermsOf(url) ==
  LET p == url.path
      dps == { k \in 1..(Len(p) - 1) : p[k] = "dp" }
      k == CHOOSE i \in dps : \A j \in dps : i <= j
  IN IF dps # {}
     THEN IF k = 1
          THEN IF url.host[1] = "www" THEN "www amazon com" ELSE "amazon com"
          ELSE CleanTitle(p[k - 1])
     ELSE IF p = <<>> THEN "" ELSE CleanTitle(p[Len(p)])

\* what Open Library answers to a search: kind is "ok", "notOk" (response.ok
\* false, a 429 after the retries included) or "throws" (fetchWithRetry or
\* response.json() throws)
Response(kind, docs) == [kind |-> kind, docs |-> docs]
Doc(title, author_name, cover_i) ==
  [title |-> title, author_name |-> author_name, cover_i |-> cover_i, found |-> TRUE]
NoDoc == [title |-> "", author_name |-> "", cover_i |-> FALSE, found |-> FALSE]
Docs ==
  { Doc("Zero to One", "Peter Thiel", TRUE),
    Doc("zero one", "", FALSE),
    Doc("", "", FALSE) }
Responses ==
  { Response("ok", <<>>), Response("notOk", <<>>), Response("throws", <<>>) }
    \cup { Response("ok", <<d>>) : d \in Docs }
HasDocs(response) == response.kind = "ok" /\ Len(response.docs) > 0

\* a product link together with what the network answers while it is resolved
Candidate(url, asinSearch, titleSearch, generalSearch, amazonCover) ==
  [ url |-> url, asinSearch |-> asinSearch, titleSearch |-> titleSearch,
    generalSearch |-> generalSearch, amazonCover |-> amazonCover ]

getAmazonBookCover(c) == extractBookInfo(c.url).asin # NoAsin /\ c.amazonCover

\* the three searches of getBookMetadata: the record found, or that one of
\* them threw
bookDataOf(c) ==
  LET info == extractBookInfo(c.url)
      byAsin == info.asin # NoAsin
      threw1 == byAsin /\ c.asinSearch.kind = "throws"
      bookData1 == IF byAsin /\ HasDocs(c.asinSearch)
                   THEN c.asinSearch.docs[1] ELSE NoDoc
      byTitle == ~threw1 /\ ~bookData1.found /\ info.title # NoTitle
      docs == c.titleSearch.docs
      matches == { i \in 1..Len(docs) :
                     /\ docs[i].title # ""
                     /\ LowerTitle(docs[i].title) = LowerTitle(info.title) }
      untitled == { i \in 1..Len(docs) : docs[i].title = "" }
      firstMatch == CHOOSE i \in matches : \A j \in matches : i <= j
      threw2 == /\ byTitle
                /\ \/ c.titleSearch.kind = "throws"
                   \/ /\ HasDocs(c.titleSearch)
                      /\ \E u \in untitled : \A i \in matches : u < i
      bookData2 == IF bookData1.found THEN bookData1
                   ELSE IF byTitle /\ ~threw2 /\ HasDocs(c.titleSearch) /\ matches # {}
                   THEN docs[firstMatch] ELSE NoDoc
      general == ~threw1 /\ ~threw2 /\ ~bookData2.found /\ searchTermsOf(c.url) # ""
      threw3 == general /\ c.generalSearch.kind = "throws"
      bookData == IF bookData2.found THEN bookData2
                  ELSE IF general /\ HasDocs(c.generalSearch)
                  THEN c.generalSearch.docs[1] ELSE NoDoc
  IN [ threw |-> threw1 \/ threw2 \/ threw3,
       bookData |-> bookData,
       searches |-> (IF byAsin THEN {"asin"} ELSE {})
                      \cup (IF byTitle THEN {"title"} ELSE {})
                      \cup (IF general THEN {"general"} ELSE {}) ]

titleSearchUrl ==
  Url("https:", <<"openlibrary", "org">>, NoPort, <<"search.json">>,
      {"title", "fields"}, FALSE)
searchUrl ==
  Url("https:", <<"openlibrary", "org">>, NoPort, <<"search.json">>,
      {"q", "fields"}, FALSE)

getBookMetadata(c) ==
  LET found == bookDataOf(c)
      bookData == found.bookData
      bookInfo == extractBookInfo(c.url)
  IN IF found.threw THEN Null
     ELSE IF bookData.found
     THEN Meta(IF bookData.title # "" THEN bookData.title ELSE "Unknown Title",
               IF bookData.author_name # "" THEN bookData.author_name
               ELSE "Unknown Author")
     ELSE IF getAmazonBookCover(c) \/ bookInfo.title # NoTitle
     THEN Meta(IF bookInfo.title # NoTitle THEN bookInfo.title ELSE "Unknown Title",
               "Unknown Author")
     ELSE Null

\* the requests getBookMetadata issues, all of them with a bare fetch
requestsOfGetBookMetadata(c) ==
  LET found == bookDataOf(c)
      probes == /\ ~found.threw
                /\ extractBookInfo(c.url).asin # NoAsin
                /\ ~found.bookData.cover_i
  IN (IF "asin" \in found.searches THEN {Request(isbnSearchUrl, FALSE)} ELSE {})
       \cup (IF "title" \in found.searches THEN {Request(titleSearchUrl, FALSE)} ELSE {})
       \cup (IF "general" \in found.searches THEN {Request(searchUrl, FALSE)} ELSE {})
       \cup (IF probes THEN {Request(amazonCoverUrl, FALSE)} ELSE {})

RECURSIVE WithoutNull(_)
WithoutNull(results) ==
  IF results = <<>> THEN <<>>
  ELSE IF Head(results).isNull THEN WithoutNull(Tail(results))
  ELSE <<Head(results)>> \o WithoutNull(Tail(results))

RECURSIVE batchesFrom(_, _)
\* the loop of getBatchBookMetadata from index i (0-based, as in the code):
\* slice(i, i + BATCH_SIZE), Promise.all over the slice, results.push
batchesFrom(amazonUrls, i) ==
  IF i >= Len(amazonUrls) THEN <<>>
  ELSE LET batch == SubSeq(amazonUrls, i + 1,
                           IF i + BATCH_SIZE < Len(amazonUrls)
                           THEN i + BATCH_SIZE ELSE Len(amazonUrls))
           batchResults == [k \in 1..Len(batch) |-> getBookMetadata(batch[k])]
       IN batchResults \o batchesFrom(amazonUrls, i + BATCH_SIZE)

\* getBatchBookMetadata that leaves the failed resolutions out of its result
getBatchBookMetadata_DropFailures(amazonUrls) ==
  WithoutNull(batchesFrom(amazonUrls, 0))

getBatchBookMetadata(amazonUrls) == batchesFrom(amazonUrls, 0)

\* ---------------------------------------------- resolution of product links
ResolverUrls ==
  { Url("https:", <<"www", "amazon", "com">>, NoPort, <<"dp", "B000000001">>,
        {}, FALSE),
    Url("https:", <<"www", "amazon", "com">>, NoPort,
        <<"Zero-One", "dp", "B000000001">>, {}, FALSE),
    Url("https:", <<"amazon", "com">>, NoPort, <<"gp", "product", "B000000002">>,
        {}, FALSE),
    Url("https:", <<"www", "amazon", "com">>, NoPort, <<"Zero-One">>, {}, FALSE) }
Candidates ==
  { Candidate(u, a, t, g, cover) :
      u \in ResolverUrls, a \in Responses, t \in Responses, g \in Responses,
      cover \in BOOLEAN }

\* the two candidates batches are made of: one resolves, one fails
ResolvingCandidate ==
  Candidate(Url("https:", <<"www", "amazon", "com">>, NoPort,
                <<"Zero-One", "dp", "B000000001">>, {}, FALSE),
            Response("ok", <<Doc("Zero to One", "Peter Thiel", TRUE)>>),
            Response("ok", <<>>), Response("ok", <<>>), FALSE)
FailingCandidate ==
  Candidate(Url("https:", <<"www", "amazon", "com">>, NoPort,
                <<"dp", "B000000001">>, {}, FALSE),
            Response("throws", <<>>), Response("ok", <<>>),
            Response("ok", <<>>), FALSE)
MaxUrls == 11
UrlBatches ==
  UNION { [1..n -> {ResolvingCandidate, FailingCandidate}] : n \in 0..MaxUrls }

CandidateCall(c) == [op |-> "candidate", candidate |-> c, amazonUrls |-> <<>>]
BatchCall(amazonUrls) ==
  [op |-> "batch", candidate |-> FailingCandidate, amazonUrls |-> amazonUrls]

InitResolver ==
  /\ now = 0
  /\ feed = <<>>
  /\ lastCheckFile = Missing
  /\ pendingFile = <<>>
  /\ booksFile = Missing
  /\ pc = "call"
  /\ rssData = Failed
  /\ newEpisodes = <<>>
  /\ toProcess = <<>>
  /\ allNewBooks = <<>>
  /\ attempts = [e \in EpisodeIds |-> 0]
  /\ requests = {}
  /\ notifications = <<>>
  /\ dropped = 0
  /\ args \in { CandidateCall(c) : c \in Candidates }
               \cup { BatchCall(b) : b \in UrlBatches }
  /\ returned = NoCall

GetBookMetadata ==
  /\ pc = "call" /\ args.op = "candidate"
  /\ returned' = Returned("getBookMetadata", getBookMetadata(args.candidate))
  /\ requests' = requestsOfGetBookMetadata(args.candidate)
  /\ pc' = "returned"
  /\ UNCHANGED <<runVars, args>>

GetBatchBookMetadata ==
  /\ pc = "call" /\ args.op = "batch"
  /\ returned' = Returned("getBatchBookMetadata",
                          getBatchBookMetadata(args.amazonUrls))
  /\ requests' = UNION { requestsOfGetBookMetadata(args.amazonUrls[i]) :
                          i \in 1..Len(args.amazonUrls) }
  /\ pc' = "returned"
  /\ UNCHANGED <<runVars, args>>

ResolverNext ==
  \/ GetBookMetadata
  \/ GetBatchBookMetadata

ResolverSpec == InitResolver /\ [][ResolverNext]_vars

\* ------------------------------------------- classification of one episode
\* the words episode titles are drawn from
TitleWords ==
  { "The", "Interview", "INTERVIEW", "interviews", "Holiday", "special",
    "ACQ2", "Nike", "nike", "Nike:", "Story", "Lincoln", "Volume", "2023" }
MaxTitleWords == 3
EpisodeTitles ==
  UNION { [1..n -> TitleWords] : n \in 1..MaxTitleWords }
    \cup { <<"Nike:", "The", "Complete", "History">>,
           <<"The", "Nike", "Interview", "2023">> }
NoDescription == <<>>
Descriptions ==
  { NoDescription,
    <<"a", "conversation", "with", "the", "founder">>,
    <<"our", "annual", "recap">>,
    <<"the", "nike", "story">> }

ClassifyCall(title, description) ==
  [op |-> "classify", title |-> title, description |-> description]

InitClassify ==
  /\ now = 0
  /\ feed = <<>>
  /\ lastCheckFile = Missing
  /\ pendingFile = <<>>
  /\ booksFile = Missing
  /\ pc = "call"
  /\ rssData = Failed
  /\ newEpisodes = <<>>
  /\ toProcess = <<>>
  /\ allNewBooks = <<>>
  /\ attempts = [e \in EpisodeIds |-> 0]
  /\ requests = {}
  /\ notifications = <<>>
  /\ dropped = 0
  /\ args \in { ClassifyCall(t, d) : t \in EpisodeTitles, d \in Descriptions }
  /\ returned = NoCall

Classify ==
  /\ pc = "call" /\ args.op = "classify"
  /\ returned' = Returned("classify", classify(args.title, args.description))
  /\ pc' = "returned"
  /\ UNCHANGED <<runVars, args, requests>>

ClassifyNext == Classify

ClassifySpec == InitClassify /\ [][ClassifyNext]_vars

\* ------------------------------------------------ the calls under pRetry
\* pRetry(fn, {retries: 2}) runs fn again after every attempt that throws,
\* until one attempt returns or retries + 1 attempts have thrown.
retries == 2

AttemptResult(threw, error, issued) ==
  [threw |-> threw, error |-> error, issued |-> issued]

PageOutcomes == {"link", "noLink", "notOk", "networkError"}

\* one attempt of findGoogleDocLink: safeFetch of the episode page, then the
\* search for a Google Doc anchor
findGoogleDocLinkAttempt(episodeUrl, outcome) ==
  LET response == safeFetch(episodeUrl, outcome # "networkError")
  IN IF response.threw THEN AttemptResult(TRUE, response.error, response.issued)
     ELSE IF outcome = "notOk"
     THEN AttemptResult(TRUE, "Failed to fetch episode page", response.issued)
     ELSE IF outcome = "noLink"
     THEN AttemptResult(TRUE, "No Google Doc link found", response.issued)
     ELSE AttemptResult(FALSE, "", response.issued)

DocOutcomes == {"links", "noLinks", "notOk", "networkError"}

\* /\/document\/d\/([a-zA-Z0-9-_]+)/ on the sanitized URL
HasDocId(url) ==
  \E i \in 1..(Len(url.path) - 2) :
    url.path[i] = "document" /\ url.path[i + 1] = "d"

\* one attempt of extractAmazonLinksFromGoogleDoc: validateUrl of the
\* document URL, the export requests, then the anchors of the export
extractAmazonLinksAttempt(googleDocUrl, outcome) ==
  LET urlValidation == validateUrl(googleDocUrl)
      export == safeFetch(docExportUrl, outcome # "networkError")
  IN IF ~urlValidation.isValid
     THEN AttemptResult(TRUE, "Invalid Google Doc URL", {})
     ELSE IF ~HasDocId(urlValidation.sanitizedUrl)
     THEN AttemptResult(TRUE, "Could not extract document ID from URL", {})
     ELSE IF outcome \in {"notOk", "networkError"}
     THEN AttemptResult(TRUE, "Could not fetch Google Doc content", export.issued)
     ELSE IF outcome = "noLinks"
     THEN AttemptResult(TRUE, "No Amazon book links found in Google Doc",
                        export.issued)
     ELSE AttemptResult(FALSE, "", export.issued)

\* the URLs handed to the two calls
RetryUrls ==
  { u \in GuardUrls :
      /\ u # NotAUrl
      /\ ~u.hash
      /\ u.port \in {NoPort, SshPort}
      /\ u.path \in { <<"document", "d", "docId", "edit">>,
                      <<"episodes", "episode">>, <<>> } }
    \cup {NotAUrl}

RetryCall(op, url) == [op |-> op, url |-> url]
Attempted(attemptNumber, result) ==
  [ op |-> "attempt", attemptNumber |-> attemptNumber, threw |-> result.threw,
    error |-> result.error ]

InitRetry ==
  /\ now = 0
  /\ feed = <<>>
  /\ lastCheckFile = Missing
  /\ pendingFile = <<>>
  /\ booksFile = Missing
  /\ pc = "call"
  /\ rssData = Failed
  /\ newEpisodes = <<>>
  /\ toProcess = <<>>
  /\ allNewBooks = <<>>
  /\ attempts = [e \in EpisodeIds |-> 0]
  /\ requests = {}
  /\ notifications = <<>>
  /\ dropped = 0
  /\ args \in { RetryCall(op, u) :
                  op \in {"findGoogleDocLink", "extractAmazonLinksFromGoogleDoc"},
                  u \in RetryUrls }
  /\ returned = [op |-> "attempt", attemptNumber |-> 0, threw |-> FALSE,
                 error |-> ""]

\* pRetry after an attempt: run fn again, or settle
Settle(result) ==
  /\ returned' = Attempted(returned.attemptNumber + 1, result)
  /\ requests' = result.issued
  /\ pc' = IF result.threw /\ returned.attemptNumber + 1 <= retries
           THEN "retry" ELSE "returned"
  /\ UNCHANGED <<runVars, args>>

FindGoogleDocLinkAttempt ==
  /\ pc \in {"call", "retry"} /\ args.op = "findGoogleDocLink"
  /\ \E outcome \in PageOutcomes :
       Settle(findGoogleDocLinkAttempt(args.url, outcome))

ExtractAmazonLinksAttempt ==
  /\ pc \in {"call", "retry"} /\ args.op = "extractAmazonLinksFromGoogleDoc"
  /\ \E outcome \in DocOutcomes :
       Settle(extractAmazonLinksAttempt(args.url, outcome))

RetryNext ==
  \/ FindGoogleDocLinkAttempt
  \/ ExtractAmazonLinksAttempt

RetrySpec == InitRetry /\ [][RetryNext]_vars

\* ------------------------------------- a run that finds a stale queue file
\* run() between checkForNewEpisodes and getReadyEpisodes.  The queue file
\* holds what checkForNewEpisodes saved, or, when that write failed (the
\* error is caught and logged by savePendingEpisodes), the record an earlier
\* run left for the same episode.
detectedItem == [id |-> 1, title |-> TitleOf(1), pubDate |-> 1]
staleRecord ==
  [ episode |-> detectedItem,
    detectedAt |-> 1,
    processAfter |-> TwoHours,
    retryCount |-> 1,
    hasGoogleDoc |-> "false",
    episodeType |-> REGULAR ]

InitDedup ==
  /\ now = TwoHours
  /\ feed = <<detectedItem>>
  /\ lastCheckFile = FileOf(now)
  /\ newEpisodes \in {<<>>, queueEpisodesForProcessing(<<detectedItem>>, now)}
  /\ pendingFile \in {newEpisodes, <<staleRecord>>}
  /\ booksFile \in {Missing, FileOf(<<manualBook>>)}
  /\ pc = "ready"
  /\ rssData = Failed
  /\ toProcess = <<>>
  /\ allNewBooks = <<>>
  /\ attempts = [e \in EpisodeIds |-> 0]
  /\ requests = {}
  /\ notifications = <<>>
  /\ dropped = 0
  /\ args = NoCall
  /\ returned = NoCall

DedupSpec == InitDedup /\ [][Next]_vars

\* -------------------------------------------- writes that are interrupted
\* fs.writeFile(path, data) opens the file with flag 'w', which truncates it,
\* then writes data and closes.  Until the data is complete the queue file
\* does not parse, so loadPendingEpisodes reads it as [], and the catalog
\* file does not parse either (Corrupt).  The process can be killed at any
\* point.
otherBook == [manualBook EXCEPT !.id = "B000000002", !.title = "Zero One"]
QueueContents == { <<>> } \cup { <<r>> : r \in DrawnRecords }
SaveCall(episodes) ==
  [op |-> "savePendingEpisodes", episodes |-> episodes, newBooks |-> <<>>]
UpdateCall(newBooks) ==
  [op |-> "updateBooksDatabase", episodes |-> <<>>, newBooks |-> newBooks]

\* returned keeps what the files held when the call began
InitWrite ==
  /\ now = 0
  /\ feed = <<>>
  /\ lastCheckFile = Missing
  /\ pendingFile \in QueueContents
  /\ booksFile \in {Missing, FileOf(<<manualBook>>)}
  /\ pc = "call"
  /\ rssData = Failed
  /\ newEpisodes = <<>>
  /\ toProcess = <<>>
  /\ allNewBooks = <<>>
  /\ attempts = [e \in EpisodeIds |-> 0]
  /\ requests = {}
  /\ notifications = <<>>
  /\ dropped = 0
  /\ args \in { SaveCall(q) : q \in QueueContents }
               \cup { UpdateCall(<<b>>) : b \in {manualBook, otherBook} }
  /\ returned = [op |-> "before", pendingFile |-> pendingFile,
                 booksFile |-> booksFile]

writeVars ==
  <<now, feed, lastCheckFile, rssData, newEpisodes, toProcess, allNewBooks,
    attempts, requests, notifications, dropped, args, returned>>

\* savePendingEpisodes: writeFile has opened the queue file
SavePendingEpisodesOpen ==
  /\ pc = "call" /\ args.op = "savePendingEpisodes"
  /\ pendingFile' = <<>>
  /\ pc' = "writing"
  /\ UNCHANGED <<writeVars, booksFile>>

\* savePendingEpisodes: writeFile has written all of the data
SavePendingEpisodesWritten ==
  /\ pc = "writing" /\ args.op = "savePendingEpisodes"
  /\ pendingFile' = args.episodes
  /\ pc' = "returned"
  /\ UNCHANGED <<writeVars, booksFile>>

\* updateBooksDatabase up to the point where writeFile has opened the
\* catalog file; with no new id it returns without writing
UpdateBooksDatabaseOpen ==
  /\ pc = "call" /\ args.op = "updateBooksDatabase"
  /\ IF updateBooksDatabaseOf(booksFile, args.newBooks) = booksFile
     THEN /\ pc' = "returned"
          /\ UNCHANGED booksFile
     ELSE /\ pc' = "writing"
          /\ booksFile' = Corrupt
  /\ UNCHANGED <<writeVars, pendingFile>>

UpdateBooksDatabaseWritten ==
  /\ pc = "writing" /\ args.op = "updateBooksDatabase"
  /\ booksFile' = updateBooksDatabaseOf(returned.booksFile, args.newBooks)
  /\ pc' = "returned"
  /\ UNCHANGED <<writeVars, pendingFile>>

\* the process is killed while the call is under way
Interrupt ==
  /\ pc \in {"call", "writing"}
  /\ pc' = "interrupted"
  /\ UNCHANGED <<writeVars, pendingFile, booksFile>>

WriteNext ==
  \/ SavePendingEpisodesOpen
  \/ SavePendingEpisodesWritten
  \/ UpdateBooksDatabaseOpen
  \/ UpdateBooksDatabaseWritten
  \/ Interrupt

WriteSpec == InitWrite /\ [][WriteNext]_vars

\* ------------------------------------- from the links to the catalog entries
\* What Open Library holds for a product: one document per ASIN.
docOf(url) ==
  IF extractASIN(url) = "B000000001" THEN Doc("Zero to One", "Peter Thiel", TRUE)
  ELSE Doc("Shoe Dog", "Phil Knight", TRUE)

\* the answers the network gives while url is resolved: the ASIN search throws
\* for the links in failing and finds the product's document for the others
answersFor(url, failing) ==
  Candidate(url,
            IF url \in failing THEN Response("throws", <<>>)
            ELSE Response("ok", <<docOf(url)>>),
            Response("ok", <<>>), Response("ok", <<>>), FALSE)

\* getBooksMetadata that hands back only the resolutions that succeeded
getBooksMetadata_SkipNull(amazonUrls, failing) ==
  LET validUrls == filterValidUrls(amazonUrls)
  IN WithoutNull(getBatchBookMetadata(
       [i \in 1..Len(validUrls) |-> answersFor(validUrls[i], failing)]))

getBooksMetadata(amazonUrls, failing) ==
  LET validUrls == filterValidUrls(amazonUrls)
  IN IF Len(validUrls) = 0 THEN <<>>
     ELSE getBatchBookMetadata(
            [i \in 1..Len(validUrls) |-> answersFor(validUrls[i], failing)])

\* steps 4 to 6 of processEpisode on the anchors of a fetched document
processEpisodeLinks(hrefs, failing, episode, t) ==
  LET extracted == extractAmazonLinksFromGoogleDoc(hrefs)
      amazonLinks == extracted.links
      bookMetadata == getBooksMetadata(amazonLinks, failing)
  IN IF extracted.threw \/ Len(amazonLinks) = 0
     THEN [amazonLinks |-> <<>>, bookMetadata |-> <<>>, books |-> <<>>]
     ELSE [ amazonLinks |-> amazonLinks,
            bookMetadata |-> bookMetadata,
            books |-> createBookObjects(bookMetadata, amazonLinks, episode, t) ]

\* the links the anchors of the model can yield
ExtractableLinks ==
  UNION { Range(extractAmazonLinksFromGoogleDoc(<<h>>).links) : h \in Hrefs }

LinksCall(hrefs, failing) ==
  [op |-> "processEpisode", hrefs |-> hrefs, failing |-> failing]

InitLinks ==
  /\ now = TwoHours
  /\ feed = <<detectedItem>>
  /\ lastCheckFile = Missing
  /\ pendingFile = <<>>
  /\ booksFile = Missing
  /\ pc = "call"
  /\ rssData = Failed
  /\ newEpisodes = <<>>
  /\ toProcess = <<>>
  /\ allNewBooks = <<>>
  /\ attempts = [e \in EpisodeIds |-> 0]
  /\ requests = {}
  /\ notifications = <<>>
  /\ dropped = 0
  /\ args \in { LinksCall(h, f) : h \in HrefSeqs, f \in SUBSET ExtractableLinks }
  /\ returned = NoCall

ProcessEpisodeLinks ==
  /\ pc = "call" /\ args.op = "processEpisode"
  /\ returned' = Returned("processEpisode",
                          processEpisodeLinks(args.hrefs, args.failing,
                                              detectedItem, now))
  /\ pc' = "returned"
  /\ UNCHANGED <<runVars, args, requests>>

LinksNext == ProcessEpisodeLinks

LinksSpec == InitLinks /\ [][LinksNext]_vars

\* ------------------------------------------------------------------ claims
TypeOK ==
  /\ now \in 0..MaxTime
  /\ pc \in {"idle", "rss", "check", "ready", "process", "update", "done",
            "failed"}
  /\ Len(feed) <= MaxFeedItems

RecordOf(pending, id) == pending[findIndex(pending, id)]

Count(x, s) == Cardinality({ i \in 1..Len(s) : s[i] = x })

SameEntries(s, t) ==
  /\ Len(s) = Len(t)
  /\ \A i \in 1..Len(s) : Count(s[i], s) = Count(s[i], t)

\* this step is one pass of the loop of run() over the head of toProcess
ProcessStep == pc = "process" /\ toProcess' # toProcess
FailedStep == ProcessStep /\ allNewBooks' = allNewBooks
SucceededStep == ProcessStep /\ allNewBooks' # allNewBooks
CurrentId == Head(toProcess).episode.id

QueueKeptUnlessSettled ==
  [][ \A id \in QueueIds(pendingFile) :
        id \notin QueueIds(pendingFile') => (ProcessStep /\ CurrentId = id) ]_vars

\* C3 -- no two entries of the catalog file have the same id.
CatalogIdsUnique ==
  LET books == CatalogEntries(booksFile)
  IN \A i, j \in 1..Len(books) : books[i].id = books[j].id => i = j

InterviewNeverQueued ==
  pc \in {"idle", "done"} =>
    \A i \in 1..Len(pendingFile) : ~isInterview(pendingFile[i].episode.title)

ValidMeta(m) ==
  ~m.isNull /\ validateBook([title |-> m.title, author |-> m.author])

FreshBooks ==
  SelectSeqBy(allNewBooks,
    { b \in Range(allNewBooks) : b.id \notin BookIds(CatalogEntries(booksFile)) })

CorruptCatalogUntouched ==
  [][ booksFile = Corrupt => booksFile' = Corrupt ]_vars

\* C11 -- mandatory gate: every network request a run issues was issued by
\* safeFetch, after validateUrl accepted its URL.
EveryRequestGated ==
  \A r \in requests : r.gated /\ validateUrl(r.url).isValid

\* a hostname is on the allowlist: it is an entry, or an entry preceded by
\* further labels
OnAllowlist(host) ==
  \E k \in 1..Len(host) : SubSeq(host, k, Len(host)) \in ALLOWED_DOMAINS

\* the loopback, private-range and metadata-service hostnames among GuardHosts
UnsafeHosts ==
  { <<"localhost">>, <<"[::1]">>, <<"127", "0", "0", "1">>,
    <<"10", "0", "0", "1">>, <<"172", "16", "0", "1">>,
    <<"192", "168", "1", "1">>, <<"169", "254", "169", "254">>,
    <<"metadata", "google", "internal">> }

\* C12 -- guard correctness: a URL that validateUrl accepts has a hostname on
\* the allowlist that is no loopback, private-range or metadata-service
\* hostname, and a URL whose hostname the blocklist matches is rejected even
\* when the allowlist matches it too.
GuardCorrect ==
  returned.op = "validateUrl" =>
    /\ returned.result.isValid =>
         /\ OnAllowlist(args.url.host)
         /\ args.url.host \notin UnsafeHosts
         /\ args.url.protocol \in ALLOWED_PROTOCOLS
    /\ isBlockedDomain(args.url.host) => ~returned.result.isValid

\* a hostname that both lists match (localhost.amazon.com, with a product
\* path) was rejected as blocked
GuardCorrectWitness ==
  /\ returned.op = "validateUrl"
  /\ isBlockedDomain(args.url.host)
  /\ OnAllowlist(args.url.host)
  /\ args.url.protocol = "https:" /\ args.url.port = NoPort
  /\ isValidPath(args.url.host, args.url.path)
  /\ ~returned.result.isValid
  /\ returned.result.error = "Domain is blocked"

\* C13 -- safeFetch fails closed: for a URL that validateUrl rejects it
\* throws an error with a message and issues no request; for a URL that
\* validateUrl accepts it issues exactly one request, to the sanitized URL.
SafeFetchFailsClosed ==
  returned.op = "safeFetch" =>
    LET validation == validateUrl(args.url)
    IN IF validation.isValid
       THEN /\ requests = {Request(validation.sanitizedUrl, TRUE)}
            /\ \A r \in requests :
                 /\ ~r.url.hash
                 /\ IncludesAmazonCom(r.url.host) =>
                      r.url.query \cap trackingParams = {}
       ELSE /\ requests = {}
            /\ returned.result.threw
            /\ returned.result.error # ""

\* safeFetch was handed the metadata-service address: it threw and nothing
\* was requested
SafeFetchFailsClosedWitness ==
  /\ returned.op = "safeFetch"
  /\ args.url.host = <<"169", "254", "169", "254">>
  /\ args.url.protocol = "http:"
  /\ returned.result.threw
  /\ requests = {}

\* C14 -- unsafe link: an anchor of a sources document that validateUrl
\* rejects is not requested and is not among the extracted links, neither as
\* written nor sanitized; every anchor that is an accepted product link is
\* extracted (sanitized); and each extracted link passes the validation that
\* precedes its resolution, in its place.
UnsafeLinkSkipped ==
  returned.op = "extractAmazonLinksFromGoogleDoc" =>
    LET links == returned.result.links
        hrefs == args.hrefs
    IN /\ \A i \in 1..Len(hrefs) :
            IF validateUrl(hrefs[i]).isValid
            THEN HrefIncludesAmazon(hrefs[i]) /\ LooksLikeBookLink(hrefs[i]) =>
                   validateUrl(hrefs[i]).sanitizedUrl \in Range(links)
            ELSE /\ hrefs[i] \notin Range(links)
                 /\ sanitizeUrl(hrefs[i]) \notin Range(links)
                 /\ \A r \in requests :
                      r.url # hrefs[i] /\ r.url.host # hrefs[i].host
       /\ \A j \in 1..Len(links) : links[j].host \notin UnsafeHosts
       /\ filterValidUrls(links) = links
       /\ returned.result.threw <=> links = <<>>

\* a document whose first anchor is the metadata-service address and whose
\* other two anchors are product links: both product links were extracted
UnsafeLinkSkippedWitness ==
  /\ returned.op = "extractAmazonLinksFromGoogleDoc"
  /\ Len(args.hrefs) = 3
  /\ args.hrefs[1].host = <<"169", "254", "169", "254">>
  /\ Len(returned.result.links) = 2
  /\ ~returned.result.threw

\* C15 -- every run that has ended, normally or with an error, has sent
\* exactly one notification.
OneNotificationPerRun ==
  pc \in {"done", "failed"} => Len(notifications) = 1

\* C16 -- a notification that is not delivered never fails the run and never
\* changes what is written: a step that sends notifications leaves the queue
\* and the last-check file alone, the catalog is either untouched or the
\* merge of the run's books, and the run fails only when the catalog write
\* threw, in which case the catalog is untouched and the only message is the
\* report of that error.
UndeliveredIsHarmless ==
  [][ (notifications' # notifications /\ notifications' # <<>>) =>
        /\ pendingFile' = pendingFile
        /\ lastCheckFile' = lastCheckFile
        /\ booksFile' \in {booksFile, updateBooksDatabaseOf(booksFile, allNewBooks)}
        /\ pc' \in {"done", "failed"}
        /\ pc' = "failed" =>
             /\ booksFile' = booksFile
             /\ Len(notifications') = 1
             /\ notifications'[1].kind = "error"
             /\ notifications'[1].error = "write failed"
        /\ pc' = "done" =>
             /\ booksFile' = updateBooksDatabaseOf(booksFile, allNewBooks)
             /\ \A i \in 1..Len(notifications') : notifications'[i].kind # "error" ]_vars

\* a run wrote its books to the catalog and ended normally although the
\* webhook did not take its message
UndeliveredIsHarmlessWitness ==
  /\ pc = "done"
  /\ Len(notifications) = 1
  /\ notifications[1].kind = "booksAdded"
  /\ ~notifications[1].delivered
  /\ Len(allNewBooks) > 0
  /\ \A i \in 1..Len(allNewBooks) :
       Count(allNewBooks[i], CatalogEntries(booksFile)) >= 1

\* C17 -- data-quality drops are surfaced: when a run has ended, the entries
\* its validation gate dropped are listed in a notification.
DropsReported ==
  (pc \in {"done", "failed"} /\ dropped > 0) =>
    \E i \in 1..Len(notifications) :
      notifications[i].kind = "unknownMetadata" /\ notifications[i].count = dropped


\* C18 -- classifier monotonicity: a title that contains "Interview", in any
\* letter case and with any description, is classified as an interview that
\* is skipped; a title and description that match none of the interview,
\* special, ACQ2 and regular heuristics are classified as regular with the
\* low confidence 0.3 and are not skipped.
InterviewWords == { "Interview", "INTERVIEW", "interviews" }
TitleContainsInterview(title) ==
  \E i \in 1..Len(title) : title[i] \in InterviewWords
MatchesNoHeuristic(title, description) ==
  LET combined == toLowerCase(title) \o toLowerCase(description)
  IN /\ ~isInterview(combined)
     /\ ~isSpecial(combined)
     /\ ~isACQ2(combined)
     /\ ~isRegular(title)
ClassifierMonotone ==
  returned.op = "classify" =>
    /\ TitleContainsInterview(args.title) =>
         /\ returned.result.type = INTERVIEW
         /\ returned.result.shouldSkip
    /\ MatchesNoHeuristic(args.title, args.description) =>
         /\ returned.result.type = REGULAR
         /\ returned.result.confidence = 3
         /\ ~returned.result.shouldSkip

\* an interview title that also carries a special-episode keyword and comes
\* with a description has been classified
ClassifierMonotoneWitness ==
  /\ returned.op = "classify"
  /\ TitleContainsInterview(args.title)
  /\ isSpecial(toLowerCase(args.title))
  /\ args.description # NoDescription
  /\ returned.result.type = INTERVIEW
  /\ returned.result.shouldSkip


\* C19 -- fallback ordering: when the bibliographic API has a hit for a
\* candidate, getBookMetadata returns the title and author of the API record,
\* whatever the link itself offers; only when the API has no hit does it
\* return the title taken from the link; when neither the API nor the link
\* yields a usable title the candidate is discarded (null).
UsableTitle(title) == title # "" /\ title # "Unknown Title"
FallbackOrdering ==
  returned.op = "getBookMetadata" =>
    LET found == bookDataOf(args.candidate)
        api == found.bookData
        lower == extractBookInfo(args.candidate.url).title
        result == returned.result
    IN ~found.threw =>
         /\ api.found /\ UsableTitle(api.title) =>
              ~result.isNull /\ result.title = api.title
         /\ ~api.found /\ UsableTitle(lower) =>
              ~result.isNull /\ result.title = lower
         /\ ~(api.found /\ UsableTitle(api.title)) /\ ~UsableTitle(lower) =>
              result.isNull


CollectThenCommit ==
  [][ pc = "process" => /\ pendingFile' = pendingFile
                        /\ booksFile' = booksFile ]_vars

\* C22 -- atomic writes: when the process is interrupted while it writes the
\* queue file or the catalog file, the file holds afterwards either all of
\* its previous content or all of the new content.
AtomicWrites ==
  pc = "interrupted" =>
    /\ args.op = "savePendingEpisodes" =>
         pendingFile \in {returned.pendingFile, args.episodes}
    /\ args.op = "updateBooksDatabase" =>
         booksFile \in { returned.booksFile,
                         updateBooksDatabaseOf(returned.booksFile, args.newBooks) }

\* C23 -- orchestrator deduplication: within one run each episode id is
\* processed at most once, and when an id is both among the newly detected
\* episodes and among the ready records of the queue, the newly detected
\* record is the one that is processed.
OrchestratorDedup ==
  [][ /\ (pc = "ready" /\ pc' = "process") =>
           /\ \A i, j \in 1..Len(toProcess') :
                toProcess'[i].episode.id = toProcess'[j].episode.id => i = j
           /\ \A i \in 1..Len(newEpisodes) :
                \E j \in 1..Len(toProcess') : toProcess'[j] = newEpisodes[i]
           /\ \A r \in Range(getReadyEpisodesOf(pendingFile, now)) :
                \E j \in 1..Len(toProcess') :
                  toProcess'[j].episode.id = r.episode.id
      /\ pc = "process" =>
           /\ toProcess' = Tail(toProcess)
           /\ Head(toProcess).episode.id \notin QueueIds(toProcess') ]_vars

\* a run is about to process a newly detected record whose id a ready record
\* of the queue carries too, with another retry count
OrchestratorDedupWitness ==
  /\ pc = "process"
  /\ newEpisodes # <<>>
  /\ toProcess = newEpisodes
  /\ \E r \in Range(getReadyEpisodesOf(pendingFile, now)) :
       /\ r.episode.id = newEpisodes[1].episode.id
       /\ r.retryCount # newEpisodes[1].retryCount

\* C24 -- a URL Guard rejection is never retried: when the URL handed to
\* findGoogleDocLink or extractAmazonLinksFromGoogleDoc fails validation, the
\* call fails at its first attempt and no further attempt follows; only
\* transient failures use up the retry attempts.
GuardRejections == {"URL validation failed", "Invalid Google Doc URL"}
GuardRejectionNotRetried ==
  (returned.attemptNumber > 0 /\ returned.error \in GuardRejections) =>
    /\ returned.attemptNumber = 1
    /\ pc = "returned"

\* C25 -- no missed episode: every feed item published later than the
\* last-check time the previous run persisted is detected as new by some run:
\* when a run stores a new last-check time, each such item of the feed was in
\* the list the run fetched, or is later than the time the run stores, so
\* that a later run detects it.
NoMissedEpisode ==
  [][ (pc = "check" /\ pc' = "ready" /\ rssData.ok) =>
        \A i \in 1..Len(feed) :
          feed[i].pubDate > getLastCheckTime(lastCheckFile, now) =>
            \/ feed[i] \in Range(rssData.items)
            \/ feed[i].pubDate > getLastCheckTime(lastCheckFile', now') ]_vars

\* C26 -- succeeded implies committed: at the end of a run, also of one whose
\* catalog write throws, every validated entry of every episode the run took
\* out of the queue as succeeded has its id in the catalog file.
SucceededImpliesCommitted ==
  pc \in {"done", "failed"} =>
    \A i \in 1..Len(allNewBooks) :
      allNewBooks[i].id \in BookIds(CatalogEntries(booksFile))

FailedRefreshFrame ==
  [][ (pc = "check" /\ pc' = "ready" /\ ~rssData.ok) =>
        /\ newEpisodes' = <<>>
        /\ pendingFile' = pendingFile
        /\ lastCheckFile' = lastCheckFile
        /\ \A i \in 1..Len(feed) :
             feed[i].pubDate > getLastCheckTime(lastCheckFile, now) =>
               /\ feed'[i] = feed[i]
               /\ feed'[i].pubDate > getLastCheckTime(lastCheckFile', now') ]_vars

\* checkForNewEpisodes has returned nothing although the feed holds an item
\* published after the recorded last check, while a queue is on disk
FailedRefreshFrameWitness ==
  /\ pc = "ready"
  /\ newEpisodes = <<>>
  /\ pendingFile # <<>>
  /\ lastCheckFile.state = "ok"
  /\ \E i \in 1..Len(feed) : feed[i].pubDate > lastCheckFile.content

============================================================================
